---------------------------- MODULE Spec2Model ----------------------------
(*
  Model of utils/docker.py (hostlife): image reference normalisation, the
  process-wide Docker client handle, the required-image resolver, the bulk
  and single pull operations, the image status query and the stale container
  cleanup.

  Python strings are modelled as sequences of one-character strings, so
  that strip, rstrip, re.sub, startswith, rsplit, "in" and "==" are computed
  character by character. Python's None is the distinguished value None.
*)
EXTENDS Integers, Sequences, FiniteSets, TLC

VARIABLES
    docker_client,   \* the module global: None, or the id of the live handle
    connectCount,    \* number of docker.DockerClient(...) constructions so far
    droplets,        \* rows returned by Droplet.query.all(), in query order
    local_images,    \* the runtime's image store: a set of images, each the sequence of its tags
    containers,      \* the runtime's containers (all=True), by name
    lastOp,          \* the last call made to this module: its arguments, result and runtime calls
    norm             \* arguments and results of the last normaliser call

vars == <<docker_client, connectCount, droplets, local_images, containers, lastOp, norm>>

-----------------------------------------------------------------------------
(* Bounds of the model *)

MaxConnects   == 3   \* client constructions explored
MaxDroplets   == 2   \* workload records in the database
MaxSuffixLen  == 2   \* characters after "hostlife_generated_" in a container name
MaxContainers == 2   \* containers listed by the runtime
MaxRegLen     == 3   \* length of a registry string given to the normaliser
MaxImgLen     == 4   \* length of an image string given to the normaliser

-----------------------------------------------------------------------------
(* Python values and string primitives *)

None == <<"<None>">>

Lowercase == {"a","b","c","d","e","f","g","h","i","j","k","l","m",
              "n","o","p","q","r","s","t","u","v","w","x","y","z"}
Uppercase == {"A","B","C","D","E","F","G","H","I","J","K","L","M",
              "N","O","P","Q","R","S","T","U","V","W","X","Y","Z"}
Digits    == {"0","1","2","3","4","5","6","7","8","9"}
Letters   == Lowercase \cup Uppercase
Whitespace == {" ", "\t", "\n", "\r"}

\* Python truthiness of an optional string: None and "" are falsy.
Falsy(s) == s = None \/ s = <<>>

Drop(s, n) == SubSeq(s, n + 1, Len(s))

\* str.lstrip() / str.rstrip() / str.strip() with no argument
RECURSIVE LStripWs(_)
LStripWs(s) ==
    IF s # <<>> /\ Head(s) \in Whitespace THEN LStripWs(Tail(s)) ELSE s

RECURSIVE RStripWs(_)
RStripWs(s) ==
    IF s # <<>> /\ s[Len(s)] \in Whitespace
    THEN RStripWs(SubSeq(s, 1, Len(s) - 1)) ELSE s

Strip(s) == RStripWs(LStripWs(s))

\* str.rstrip(c) for a one-character argument
RECURSIVE RStripChar(_, _)
RStripChar(s, c) ==
    IF s # <<>> /\ s[Len(s)] = c
    THEN RStripChar(SubSeq(s, 1, Len(s) - 1), c) ELSE s

\* str.startswith
StartsWith(s, p) == Len(p) <= Len(s) /\ SubSeq(s, 1, Len(p)) = p

\* the "in" operator on two strings (substring test)
Contains(s, sub) ==
    \E i \in 0..(Len(s) - Len(sub)) : SubSeq(s, i + 1, i + Len(sub)) = sub

\* number of leading characters of s that lie in class
RECURSIVE RunLen(_, _)
RunLen(s, class) ==
    IF s # <<>> /\ Head(s) \in class THEN 1 + RunLen(Tail(s), class) ELSE 0

\* index of the last occurrence of c in s, 0 when absent (str.rfind + 1)
RECURSIVE LastIndexOf(_, _)
LastIndexOf(s, c) ==
    IF s = <<>> THEN 0
    ELSE IF s[Len(s)] = c THEN Len(s)
    ELSE LastIndexOf(SubSeq(s, 1, Len(s) - 1), c)

-----------------------------------------------------------------------------
(* Reference normaliser *)

\* re.sub(r'^[a-zA-Z]+://', '', value): the greedy letter run must be
\* followed by "://"; a shorter run would be followed by a letter.
ReSubScheme(value) ==
    LET k == RunLen(value, Letters)
    IN  IF k >= 1 /\ StartsWith(Drop(value, k), <<":", "/", "/">>)
        THEN Drop(value, k + 3)
        ELSE value

\* re.sub(r'/+', '/', s)
RECURSIVE ReSubSlashes(_)
ReSubSlashes(s) ==
    IF s = <<>> THEN <<>>
    ELSE IF Head(s) = "/"
         THEN <<"/">> \o ReSubSlashes(Drop(s, RunLen(s, {"/"})))
         ELSE <<Head(s)>> \o ReSubSlashes(Tail(s))

_strip_scheme(value) ==
    IF Falsy(value) THEN <<>> ELSE ReSubScheme(Strip(value))

sanitize_registry(registry) == RStripChar(_strip_scheme(registry), "/")

sanitize_image_reference(image_name) ==
    LET stripped == _strip_scheme(image_name)
    IN  IF stripped = <<>> THEN <<>> ELSE ReSubSlashes(stripped)

build_full_image_name(registry, image_name) ==
    LET img == sanitize_image_reference(image_name)
        reg == sanitize_registry(registry)
    IN  IF reg # <<>>
        THEN IF StartsWith(img, reg \o <<"/">>) THEN img
             ELSE IF img # <<>> THEN reg \o <<"/">> \o img ELSE reg
        ELSE img

\* "if ':' in name: parts = name.rsplit(':', 1) ... else: tag = 'latest'"
SplitTag(full_image) ==
    LET i == LastIndexOf(full_image, ":")
    IN  IF i > 0
        THEN [repository |-> SubSeq(full_image, 1, i - 1), tag |-> Drop(full_image, i)]
        ELSE [repository |-> full_image, tag |-> <<"l", "a", "t", "e", "s", "t">>]


-----------------------------------------------------------------------------
(* Calls made to the collaborators (Docker SDK, database) and their records *)

\* one call to a collaborator: its name, its string arguments, whether it returned
Call(name, args, ok) == [name |-> name, args |-> args, ok |-> ok]

\* the handle created by the n-th docker.DockerClient(...) construction
Handle(n) == <<"DockerClient", n>>

\* __version__ imported from the package's __init__
Version == <<"1", ".", "0">>

GuacImage ==
    <<"g", "h", "c", "r", ".", "i", "o", "/", "z", "w", "p", "s", "e", "u", "d", "o", "/",
      "h", "o", "s", "t", "l", "i", "f", "e", "-", "g", "u", "a", "c", ":">> \o Version

\* a Droplet row: its primary key and the two nullable columns read here
Row(id, registry, image) ==
    [id |-> id, container_docker_registry |-> registry, container_docker_image |-> image]

NoOp == [op |-> "none", args |-> <<>>, calls |-> <<>>, ret |-> None, raised |-> FALSE]
NormIdle == [fn |-> "none", registry |-> None, image_name |-> None, result |-> <<>>]

-----------------------------------------------------------------------------
(* Required-image resolver: the loop over Droplet.query.all() *)

RECURSIVE DropletEntries(_)
DropletEntries(rows) ==
    IF rows = <<>> THEN <<>>
    ELSE LET droplet == Head(rows)
             image == build_full_image_name(droplet.container_docker_registry,
                                             droplet.container_docker_image)
         IN  IF droplet.container_docker_image = None THEN DropletEntries(Tail(rows))
             ELSE IF image = <<>> THEN DropletEntries(Tail(rows))
             ELSE <<[id |-> droplet.id, image |-> image]>> \o DropletEntries(Tail(rows))

RequiredImages(rows) == <<[id |-> "guac", image |-> GuacImage]>> \o DropletEntries(rows)

-----------------------------------------------------------------------------
(* The runtime's image store *)

\* every tag of every image returned by images.list()
LocalTags(images) == UNION {{img[k] : k \in 1..Len(img)} : img \in images}

\* images.pull(repository, tag) that succeeds leaves an image tagged "repository:tag"
Pulled(images, repository, tag) ==
    LET t == repository \o <<":">> \o tag
    IN  IF t \in LocalTags(images) THEN images ELSE images \cup {<<t>>}

RECURSIVE AfterCalls(_, _)
AfterCalls(images, calls) ==
    IF calls = <<>> THEN images
    ELSE LET c == Head(calls)
         IN  AfterCalls(IF c.name = "images.pull" /\ c.ok
                        THEN Pulled(images, c.args[1], c.args[2]) ELSE images,
                        Tail(calls))

-----------------------------------------------------------------------------
(* init_docker, is_docker_available, get_docker_version *)

\* outcome: "ok", "connect_fails" (the constructor raises) or "ping_fails"
InitDockerAlwaysConnects(client, count, outcome) ==
    LET made == Call("DockerClient", <<>>, outcome # "connect_fails")
        ping == Call("ping", <<>>, outcome = "ok")
        ok   == outcome = "ok"
    IN  [client |-> IF ok THEN Handle(count + 1) ELSE None,
         count  |-> count + 1,
         calls  |-> IF outcome = "connect_fails" THEN <<made>> ELSE <<made, ping>>,
         ret    |-> IF ok THEN Handle(count + 1) ELSE None]

init_docker(client, count, outcome) ==
    IF client # None
    THEN [client |-> client, count |-> count, calls |-> <<>>, ret |-> client]
    ELSE LET made == Call("DockerClient", <<>>, outcome # "connect_fails")
             ping == Call("ping", <<>>, outcome = "ok")
             ok   == outcome = "ok"
         IN  [client |-> IF ok THEN Handle(count + 1) ELSE None,
              count  |-> count + 1,
              calls  |-> IF outcome = "connect_fails" THEN <<made>> ELSE <<made, ping>>,
              ret    |-> IF ok THEN Handle(count + 1) ELSE None]

ErrText == <<"4", "0", "4">>

get_docker_version(client, fails) ==
    IF client = None
    THEN [calls |-> <<>>,
          ret |-> <<"D", "o", "c", "k", "e", "r", " ", "n", "o", "t", " ",
                    "a", "v", "a", "i", "l", "a", "b", "l", "e">>]
    ELSE [calls |-> <<Call("version", <<>>, ~fails)>>,
          ret |-> IF fails THEN <<"E", "r", "r", "o", "r", ":", " ">> \o ErrText
                  ELSE <<"2", "4">>]

-----------------------------------------------------------------------------
(* force_pull_required_images and pull_images: the same body twice *)

PullCall(image_name, ok) ==
    LET st == SplitTag(image_name)
    IN  Call("images.pull", <<st.repository, st.tag>>, ok)

\* the loop with the try/except around the whole loop instead of around each pull
RECURSIVE PullAllAbortOnFailure(_, _, _)
PullAllAbortOnFailure(required, fails, i) ==
    IF i > Len(required) THEN <<>>
    ELSE <<PullCall(required[i].image, i \notin fails)>>
         \o (IF i \in fails THEN <<>> ELSE PullAllAbortOnFailure(required, fails, i + 1))

\* "for img_info in required_images: try: ... pull ... except Exception: log"
RECURSIVE PullAll(_, _, _)
PullAll(required, fails, i) ==
    IF i > Len(required) THEN <<>>
    ELSE <<PullCall(required[i].image, i \notin fails)>> \o PullAll(required, fails, i + 1)

\* dbFails: Droplet.query.all() raises; fails: the entries whose pull raises
BulkPull(client, rows, dbFails, fails) ==
    IF client = None THEN [calls |-> <<>>, raised |-> FALSE]
    ELSE IF dbFails
         THEN [calls |-> <<Call("Droplet.query.all", <<>>, FALSE)>>, raised |-> FALSE]
         ELSE [calls |-> <<Call("Droplet.query.all", <<>>, TRUE)>>
                          \o PullAll(RequiredImages(rows), fails, 1),
               raised |-> FALSE]

-----------------------------------------------------------------------------
(* check_image_exists, pull_single_image, get_images_status *)

check_image_exists(client, images, registry, image_name, listFails) ==
    IF client = None THEN [calls |-> <<>>, ret |-> FALSE]
    ELSE IF listFails THEN [calls |-> <<Call("images.list", <<>>, FALSE)>>, ret |-> FALSE]
    ELSE [calls |-> <<Call("images.list", <<>>, TRUE)>>,
          ret |-> \E img \in images : \E k \in 1..Len(img) :
                     img[k] = build_full_image_name(registry, image_name)]

MsgNotAvailable ==
    <<"D", "o", "c", "k", "e", "r", " ", "c", "l", "i", "e", "n", "t", " ",
      "n", "o", "t", " ", "a", "v", "a", "i", "l", "a", "b", "l", "e">>
MsgEmpty ==
    <<"I", "m", "a", "g", "e", " ", "n", "a", "m", "e", " ", "c", "a", "n", "n", "o", "t", " ",
      "b", "e", " ", "e", "m", "p", "t", "y">>
MsgPulled ==
    <<"S", "u", "c", "c", "e", "s", "s", "f", "u", "l", "l", "y", " ",
      "p", "u", "l", "l", "e", "d", " ">>
MsgError ==
    <<"E", "r", "r", "o", "r", " ", "p", "u", "l", "l", "i", "n", "g", " ",
      "D", "o", "c", "k", "e", "r", " ", "i", "m", "a", "g", "e", " ">>

\* ret is the (success, message) pair
pull_single_image(client, registry, image_name, fails) ==
    IF client = None THEN [calls |-> <<>>, ret |-> <<FALSE, MsgNotAvailable>>]
    ELSE IF Falsy(image_name) \/ Strip(image_name) = <<>>
         THEN [calls |-> <<>>, ret |-> <<FALSE, MsgEmpty>>]
         ELSE LET full_image == build_full_image_name(registry, image_name)
              IN  [calls |-> <<PullCall(full_image, ~fails)>>,
                   ret |-> IF fails
                           THEN <<FALSE, MsgError \o image_name \o <<":", " ">> \o ErrText>>
                           ELSE <<TRUE, MsgPulled \o full_image>>]

\* the membership test written as a substring test
ExistsBySubstring(image, tags) == \E t \in tags : Contains(t, image)

\* any(img_info["image"] == tag for tag in local_image_tags)
Exists(image, tags) == \E t \in tags : image = t

RECURSIVE StatusOf(_, _)
StatusOf(required, tags) ==
    IF required = <<>> THEN <<>>
    ELSE <<[id |-> Head(required).id, image |-> Head(required).image,
            exists |-> Exists(Head(required).image, tags)]>>
         \o StatusOf(Tail(required), tags)

\* the status query without its "if not docker_client" guard
StatusWithoutGuard(client, rows, images, dbFails, listFails) ==
    IF dbFails THEN [calls |-> <<Call("Droplet.query.all", <<>>, FALSE)>>, ret |-> <<>>]
    ELSE IF listFails \/ client = None
         THEN [calls |-> <<Call("Droplet.query.all", <<>>, TRUE)>>
                          \o (IF client = None THEN <<>>
                              ELSE <<Call("images.list", <<>>, FALSE)>>),
               ret |-> <<>>]
    ELSE [calls |-> <<Call("Droplet.query.all", <<>>, TRUE), Call("images.list", <<>>, TRUE)>>,
          ret |-> StatusOf(RequiredImages(rows), LocalTags(images))]

\* ret is the mapping, as the sequence of its values in insertion order
get_images_status(client, rows, images, dbFails, listFails) ==
    IF client = None THEN [calls |-> <<>>, ret |-> <<>>]
    ELSE IF dbFails THEN [calls |-> <<Call("Droplet.query.all", <<>>, FALSE)>>, ret |-> <<>>]
    ELSE IF listFails
         THEN [calls |-> <<Call("Droplet.query.all", <<>>, TRUE),
                           Call("images.list", <<>>, FALSE)>>,
               ret |-> <<>>]
    ELSE [calls |-> <<Call("Droplet.query.all", <<>>, TRUE), Call("images.list", <<>>, TRUE)>>,
          ret |-> StatusOf(RequiredImages(rows), LocalTags(images))]

-----------------------------------------------------------------------------
(* cleanup_containers *)

UpperSeq == <<"A","B","C","D","E","F","G","H","I","J","K","L","M",
              "N","O","P","Q","R","S","T","U","V","W","X","Y","Z">>
LowerSeq == <<"a","b","c","d","e","f","g","h","i","j","k","l","m",
              "n","o","p","q","r","s","t","u","v","w","x","y","z">>

\* case folding of one character, as re.IGNORECASE compares literals
Fold(c) == IF c \in Uppercase THEN LowerSeq[CHOOSE i \in 1..26 : UpperSeq[i] = c] ELSE c

NamePrefix ==
    <<"h", "o", "s", "t", "l", "i", "f", "e", "_",
      "g", "e", "n", "e", "r", "a", "t", "e", "d", "_">>

\* [a-z0-9] under re.IGNORECASE
AlnumIC == Lowercase \cup Uppercase \cup Digits

HasNamePrefix(name) ==
    /\ Len(name) >= Len(NamePrefix)
    /\ \A i \in 1..Len(NamePrefix) : Fold(name[i]) = NamePrefix[i]

\* re.compile(r"hostlife_generated_([a-z0-9]+(-[a-z0-9]+)+)", re.IGNORECASE).match(name):
\* a match anchored at the start only. The first [a-z0-9]+ must take the whole
\* leading run (a shorter one is followed by an alphanumeric, not by "-"), and one
\* repetition of the group is enough for the match to succeed.
RegexMatch(name) ==
    /\ HasNamePrefix(name)
    /\ LET rest == Drop(name, Len(NamePrefix))
           k == RunLen(rest, AlnumIC)
       IN  /\ k >= 1
           /\ Len(rest) >= k + 2
           /\ rest[k + 1] = "-"
           /\ rest[k + 2] \in AlnumIC

\* outcome[i]: "ok", "stop_fails" or "remove_fails" for the i-th listed container
ContainerCalls(name, outcome) ==
    IF ~RegexMatch(name) THEN <<>>
    ELSE IF outcome = "stop_fails" THEN <<Call("container.stop", <<name>>, FALSE)>>
    ELSE <<Call("container.stop", <<name>>, TRUE),
           Call("container.remove", <<name>>, outcome = "ok")>>

\* the loop with the try/except around the whole loop instead of around each container
RECURSIVE CleanupLoopAbortOnFailure(_, _, _)
CleanupLoopAbortOnFailure(names, outcomes, i) ==
    IF i > Len(names) THEN <<>>
    ELSE ContainerCalls(names[i], outcomes[i])
         \o (IF RegexMatch(names[i]) /\ outcomes[i] # "ok" THEN <<>>
             ELSE CleanupLoopAbortOnFailure(names, outcomes, i + 1))

RECURSIVE CleanupLoop(_, _, _)
CleanupLoop(names, outcomes, i) ==
    IF i > Len(names) THEN <<>>
    ELSE ContainerCalls(names[i], outcomes[i]) \o CleanupLoop(names, outcomes, i + 1)

cleanup_containers(client, names, listFails, outcomes) ==
    IF client = None THEN [calls |-> <<>>, raised |-> FALSE]
    ELSE IF listFails
         THEN [calls |-> <<Call("containers.list", <<>>, FALSE)>>, raised |-> FALSE]
         ELSE [calls |-> <<Call("containers.list", <<>>, TRUE)>>
                          \o CleanupLoop(names, outcomes, 1),
               raised |-> FALSE]

\* the containers whose remove() returned
Removed(calls) ==
    {calls[k].args[1] : k \in {j \in 1..Len(calls) :
                                  calls[j].name = "container.remove" /\ calls[j].ok}}

RECURSIVE Without(_, _)
Without(names, gone) ==
    IF names = <<>> THEN <<>>
    ELSE (IF Head(names) \in gone THEN <<>> ELSE <<Head(names)>>) \o Without(Tail(names), gone)

-----------------------------------------------------------------------------
(* Inputs: what the database, the runtime and the callers can hand to the module *)

SeqsUpTo(S, n) == UNION {[1..k -> S] : k \in 0..n}

\* the (container_docker_registry, container_docker_image) pairs of a row, and the
\* canonical image each yields:
\*   (None, None)          the row is skipped
\*   ("r", "")             "r"
\*   ("r", "a")            "r/a"    (no tag)
\*   ("s://r/", "r//a:1")  "r/a:1"
RowValues ==
    { <<None, None>>,
      <<  <<"r">>, <<>>  >>,
      <<  <<"r">>, <<"a">>  >>,
      <<  <<"s", ":", "/", "/", "r", "/">>, <<"r", "/", "/", "a", ":", "1">>  >> }

DropletLists ==
    UNION { {[i \in 1..n |-> Row(i, f[i][1], f[i][2])] : f \in [1..n -> RowValues]}
            : n \in 0..MaxDroplets }

\* image stores the runtime may start with: empty, or holding the companion image
\* and tags that extend "r/a:1" or contain it
InitialStores ==
    { {},
      { <<GuacImage>>,
        << <<"r", "/", "a", ":", "1", "0">>, <<"x", "r", "/", "a", ":", "1">> >> } }

\* (registry, image_name) arguments of check_image_exists and pull_single_image
SingleArgs == RowValues \cup { << <<"r">>, <<" ", " ">> >> }

InitOutcomes == {"ok", "connect_fails", "ping_fails"}
ContainerOutcomes == {"ok", "stop_fails", "remove_fails"}

\* container names: "hostlife_generated_" followed by every short suffix over
\* {a, -}, names with two and three segments, and names that differ in case,
\* carry a tail, or lack the prefix
ContainerNames ==
    {NamePrefix \o sfx : sfx \in SeqsUpTo({"a", "-"}, MaxSuffixLen)}
    \cup { NamePrefix \o <<"a", "-", "a">>,
           NamePrefix \o <<"a", "-", "b", "-", "2">>,
           <<"H", "O", "S", "T", "L", "I", "F", "E", "_", "G", "E", "N", "E", "R", "A", "T",
             "E", "D", "_", "A", "-", "1">>,
           NamePrefix \o <<"a", "-", "a", "_", "!">>,
           <<"x">> \o NamePrefix \o <<"a", "-", "a">>,
           <<"g", "u", "a", "c">> }

\* the runtime keeps container names unique
ContainerLists ==
    {l \in SeqsUpTo(ContainerNames, MaxContainers) :
        \A i, j \in 1..Len(l) : i # j => l[i] # l[j]}

NormAlphabet == {"a", ":", "/", " "}
RegistryStrings == SeqsUpTo(NormAlphabet, MaxRegLen) \cup {None}
ImageStrings == SeqsUpTo(NormAlphabet, MaxImgLen) \cup {None}

-----------------------------------------------------------------------------
(* The operations of the module, one action each *)

Op(name, args, calls, ret, raised) ==
    [op |-> name, args |-> args, calls |-> calls, ret |-> ret, raised |-> raised]

InitDocker ==
    \E outcome \in InitOutcomes :
        LET r == init_docker(docker_client, connectCount, outcome)
        IN  /\ r.count <= MaxConnects
            /\ docker_client' = r.client
            /\ connectCount' = r.count
            /\ lastOp' = Op("init_docker", <<>>, r.calls, r.ret, FALSE)
            /\ UNCHANGED <<droplets, local_images, containers, norm>>

IsDockerAvailable ==
    /\ lastOp' = Op("is_docker_available", <<>>, <<>>, docker_client # None, FALSE)
    /\ UNCHANGED <<docker_client, connectCount, droplets, local_images, containers, norm>>

GetDockerVersion ==
    \E fails \in BOOLEAN :
        LET r == get_docker_version(docker_client, fails)
        IN  /\ lastOp' = Op("get_docker_version", <<>>, r.calls, r.ret, FALSE)
            /\ UNCHANGED <<docker_client, connectCount, droplets, local_images,
                           containers, norm>>

CleanupContainers ==
    \E listFails \in BOOLEAN :
      \E outcomes \in IF docker_client = None \/ listFails
                      THEN {[i \in 1..Len(containers) |-> "ok"]}
                      ELSE [1..Len(containers) -> ContainerOutcomes] :
        LET r == cleanup_containers(docker_client, containers, listFails, outcomes)
        IN  /\ lastOp' = Op("cleanup_containers", containers, r.calls, None, r.raised)
            /\ containers' = Without(containers, Removed(r.calls))
            /\ UNCHANGED <<docker_client, connectCount, droplets, local_images, norm>>

ForcePullRequiredImages ==
    \E dbFails \in BOOLEAN :
      \E fails \in IF docker_client = None \/ dbFails THEN {{}}
                   ELSE SUBSET (1..Len(RequiredImages(droplets))) :
        LET r == BulkPull(docker_client, droplets, dbFails, fails)
        IN  /\ lastOp' = Op("force_pull_required_images", <<>>, r.calls, None, r.raised)
            /\ local_images' = AfterCalls(local_images, r.calls)
            /\ UNCHANGED <<docker_client, connectCount, droplets, containers, norm>>

PullImages ==
    \E dbFails \in BOOLEAN :
      \E fails \in IF docker_client = None \/ dbFails THEN {{}}
                   ELSE SUBSET (1..Len(RequiredImages(droplets))) :
        LET r == BulkPull(docker_client, droplets, dbFails, fails)
        IN  /\ lastOp' = Op("pull_images", <<>>, r.calls, None, r.raised)
            /\ local_images' = AfterCalls(local_images, r.calls)
            /\ UNCHANGED <<docker_client, connectCount, droplets, containers, norm>>

CheckImageExists ==
    \E a \in SingleArgs, listFails \in BOOLEAN :
        LET r == check_image_exists(docker_client, local_images, a[1], a[2], listFails)
        IN  /\ lastOp' = Op("check_image_exists", a, r.calls, r.ret, FALSE)
            /\ UNCHANGED <<docker_client, connectCount, droplets, local_images,
                           containers, norm>>

PullSingleImage ==
    \E a \in SingleArgs, fails \in BOOLEAN :
        LET r == pull_single_image(docker_client, a[1], a[2], fails)
        IN  /\ lastOp' = Op("pull_single_image", a, r.calls, r.ret, FALSE)
            /\ local_images' = AfterCalls(local_images, r.calls)
            /\ UNCHANGED <<docker_client, connectCount, droplets, containers, norm>>

GetImagesStatus ==
    \E dbFails \in BOOLEAN, listFails \in BOOLEAN :
        LET r == get_images_status(docker_client, droplets, local_images, dbFails, listFails)
        IN  /\ lastOp' = Op("get_images_status", <<>>, r.calls, r.ret, FALSE)
            /\ UNCHANGED <<docker_client, connectCount, droplets, local_images,
                           containers, norm>>

\* the normaliser's functions, called on the strings held in norm
CallSanitizeRegistry ==
    /\ norm' = [norm EXCEPT !.fn = "sanitize_registry",
                            !.result = sanitize_registry(norm.registry)]
    /\ UNCHANGED <<docker_client, connectCount, droplets, local_images, containers, lastOp>>

CallSanitizeImageReference ==
    /\ norm' = [norm EXCEPT !.fn = "sanitize_image_reference",
                            !.result = sanitize_image_reference(norm.image_name)]
    /\ UNCHANGED <<docker_client, connectCount, droplets, local_images, containers, lastOp>>

CallBuildFullImageName ==
    /\ norm' = [norm EXCEPT !.fn = "build_full_image_name",
                            !.result = build_full_image_name(norm.registry, norm.image_name)]
    /\ UNCHANGED <<docker_client, connectCount, droplets, local_images, containers, lastOp>>

-----------------------------------------------------------------------------
(* Specifications *)

\* the state lastOp holds right after the first init_docker() has connected
ConnectedOp ==
    Op("init_docker", <<>>,
       <<Call("DockerClient", <<>>, TRUE), Call("ping", <<>>, TRUE)>>, Handle(1), FALSE)

\* Connection lifecycle: the module as imported (docker_client = None), every
\* operation, a small database and runtime.
Init ==
    /\ docker_client = None
    /\ connectCount = 0
    /\ droplets \in {<<>>, <<Row(1, <<"r">>, <<"a">>)>>}
    /\ local_images = {}
    /\ containers = <<NamePrefix \o <<"a", "-", "1">>, <<"g", "u", "a", "c">>>>
    /\ lastOp = NoOp
    /\ norm = NormIdle

Next ==
    \/ InitDocker
    \/ IsDockerAvailable
    \/ GetDockerVersion
    \/ CleanupContainers
    \/ ForcePullRequiredImages
    \/ PullImages
    \/ CheckImageExists
    \/ PullSingleImage
    \/ GetImagesStatus

Spec == Init /\ [][Next]_vars

\* Image reconciliation: the module after init_docker() has connected, with
\* every database content and initial image store within the bounds.
InitImages ==
    /\ docker_client = Handle(1)
    /\ connectCount = 1
    /\ droplets \in DropletLists
    /\ local_images \in InitialStores
    /\ containers = <<>>
    /\ lastOp = ConnectedOp
    /\ norm = NormIdle

NextImages ==
    \/ ForcePullRequiredImages
    \/ PullImages
    \/ GetImagesStatus

SpecImages == InitImages /\ [][NextImages]_vars

\* Container cleanup: the module after init_docker() has connected, with every
\* list of containers within the bounds.
InitCleanup ==
    /\ docker_client = Handle(1)
    /\ connectCount = 1
    /\ droplets = <<>>
    /\ local_images = {}
    /\ containers \in ContainerLists
    /\ lastOp = ConnectedOp
    /\ norm = NormIdle

NextCleanup == CleanupContainers

SpecCleanup == InitCleanup /\ [][NextCleanup]_vars

\* The normaliser's pure functions on every input string within the bounds.
InitNorm ==
    /\ docker_client = None
    /\ connectCount = 0
    /\ droplets = <<>>
    /\ local_images = {}
    /\ containers = <<>>
    /\ lastOp = NoOp
    /\ norm \in {[fn |-> "none", registry |-> r, image_name |-> x, result |-> <<>>] :
                    r \in RegistryStrings, x \in ImageStrings}

NextNorm ==
    \/ CallSanitizeRegistry
    \/ CallSanitizeImageReference
    \/ CallBuildFullImageName

SpecNorm == InitNorm /\ [][NextNorm]_vars

-----------------------------------------------------------------------------
(* Properties *)

BulkOps == {"force_pull_required_images", "pull_images"}

\* the runtime and database calls of an operation that carry a given name
CallsNamed(op, name) == SelectSeq(op.calls, LAMBDA c : c.name = name)

\* the bulk pass got its rows: Droplet.query.all() returned
DbReturned(op) == op.calls # <<>> /\ op.calls[1] = Call("Droplet.query.all", <<>>, TRUE)

\* pull(repository, tag) is the pull of image: "repository:tag" spells the image,
\* or the image has no ":" and is pulled whole with tag "latest"
IsPullOf(c, image) ==
    /\ c.name = "images.pull"
    /\ \/ c.args[1] \o <<":">> \o c.args[2] = image /\ ":" \notin {c.args[2][k] : k \in 1..Len(c.args[2])}
       \/ (\A k \in 1..Len(image) : image[k] # ":")
            /\ c.args = <<image, <<"l", "a", "t", "e", "s", "t">>>>

\* C1: in a bulk pull pass on a connected runtime whose row query returned, the
\* pulls attempted are exactly one per required entry, in entry order with the
\* companion image first, whichever pulls fail; nothing is raised to the caller.
C1_BulkPullAttemptsEveryEntry ==
    (lastOp.op \in BulkOps /\ docker_client # None /\ DbReturned(lastOp)) =>
        LET required == RequiredImages(droplets)
            pulls == CallsNamed(lastOp, "images.pull")
        IN  /\ Len(pulls) = Len(required)
            /\ Len(lastOp.calls) = 1 + Len(required)
            /\ \A i \in 1..Len(required) : IsPullOf(lastOp.calls[i + 1], required[i].image)
            /\ required[1].image = GuacImage
            /\ ~lastOp.raised

\* C1 witness: three required entries, the pull of the second failed, the first
\* and the third were attempted and returned.
C1_Witness ==
    /\ lastOp.op \in BulkOps
    /\ Len(RequiredImages(droplets)) = 3
    /\ Len(lastOp.calls) = 4
    /\ lastOp.calls[2].ok /\ ~lastOp.calls[3].ok /\ lastOp.calls[4].ok

\* C2: in a status query that reached the runtime, every required entry is
\* reported, and its exists flag is true exactly when its image equals some tag
\* of some local image; a tag that only contains the image does not count.
C2_ExistsIffExactTag ==
    (lastOp.op = "get_images_status" /\ docker_client # None /\ lastOp.ret # <<>>) =>
        /\ Len(lastOp.ret) = Len(RequiredImages(droplets))
        /\ \A i \in 1..Len(lastOp.ret) :
              /\ lastOp.ret[i].image = RequiredImages(droplets)[i].image
              /\ lastOp.ret[i].exists <=>
                    \E img \in local_images : \E k \in 1..Len(img) :
                        img[k] = lastOp.ret[i].image

\* C2 witness: a status with one entry present by exact tag, and one entry
\* reported missing although local tags contain its image as a proper substring.
C2_Witness ==
    /\ lastOp.op = "get_images_status"
    /\ \E i \in 1..Len(lastOp.ret) : lastOp.ret[i].exists
    /\ \E i \in 1..Len(lastOp.ret) :
          /\ ~lastOp.ret[i].exists
          /\ \E img \in local_images : \E k \in 1..Len(img) :
                Contains(img[k], lastOp.ret[i].image)

\* C3: a status query made while docker_client is None returns the empty
\* mapping, raises nothing, and calls neither the runtime nor the database.
C3_StatusEmptyWhenNotConnected ==
    (lastOp.op = "get_images_status" /\ docker_client = None) =>
        /\ lastOp.ret = <<>>
        /\ lastOp.calls = <<>>
        /\ ~lastOp.raised

\* C3 witness: a status query after an init_docker() that failed.
C3_Witness ==
    /\ lastOp.op = "get_images_status"
    /\ docker_client = None
    /\ connectCount > 0

\* C4: whenever pull_single_image reached the runtime pull, the returned
\* message contains build_full_image_name(registry, image_name).
C4_MessageEchoesCanonical ==
    (lastOp.op = "pull_single_image" /\ lastOp.calls # <<>>) =>
        Contains(lastOp.ret[2], build_full_image_name(lastOp.args[1], lastOp.args[2]))

HasSchemePrefix(s) ==
    \E k \in 1..Len(s) :
        /\ \A j \in 1..k : s[j] \in Letters
        /\ Len(s) >= k + 3
        /\ SubSeq(s, k + 1, k + 3) = <<":", "/", "/">>

\* C5: every result of build_full_image_name has no scheme prefix, no run of
\* two or more "/", and no trailing "/".
C5_CanonicalForm ==
    norm.fn = "build_full_image_name" =>
        /\ ~HasSchemePrefix(norm.result)
        /\ ~Contains(norm.result, <<"/", "/">>)
        /\ (norm.result = <<>> \/ norm.result[Len(norm.result)] # "/")

\* the entries C6 describes: one per row whose image field is neither unset nor
\* empty and whose canonical image is non-empty
RECURSIVE EntriesOfNonEmptyImages(_)
EntriesOfNonEmptyImages(rows) ==
    IF rows = <<>> THEN <<>>
    ELSE LET d == Head(rows)
             image == build_full_image_name(d.container_docker_registry,
                                            d.container_docker_image)
         IN  (IF d.container_docker_image \notin {None, <<>>} /\ image # <<>>
              THEN <<image>> ELSE <<>>)
             \o EntriesOfNonEmptyImages(Tail(rows))

\* C6: the required list behind a status is the companion image followed, in
\* row order, by one entry per row with a set, non-empty image field and a
\* non-empty canonical image; rows with an unset or empty image field add nothing.
C6_RequiredListSkipsEmptyImages ==
    (lastOp.op = "get_images_status" /\ lastOp.ret # <<>>) =>
        [i \in 1..Len(lastOp.ret) |-> lastOp.ret[i].image]
            = <<GuacImage>> \o EntriesOfNonEmptyImages(droplets)

\* C7: sanitize_registry and sanitize_image_reference are idempotent.
C7_SanitizersIdempotent ==
    /\ norm.fn = "sanitize_registry" => sanitize_registry(norm.result) = norm.result
    /\ norm.fn = "sanitize_image_reference" =>
          sanitize_image_reference(norm.result) = norm.result

ConnectCalls == {"DockerClient", "ping"}

\* C8: only init_docker changes docker_client; no other operation constructs a
\* client or pings; and init_docker on a live handle returns that handle, leaves
\* it in place, and neither constructs a client nor pings.
C8_OnlyInitChangesConnection ==
    [][ /\ docker_client' # docker_client => lastOp'.op = "init_docker"
        /\ lastOp'.op # "init_docker" =>
              /\ \A k \in 1..Len(lastOp'.calls) : lastOp'.calls[k].name \notin ConnectCalls
              /\ connectCount' = connectCount
        /\ (docker_client # None /\ lastOp'.op = "init_docker") =>
              /\ docker_client' = docker_client
              /\ lastOp'.ret = docker_client
              /\ lastOp'.calls = <<>>
              /\ connectCount' = connectCount
      ]_vars

\* C8 witness: init_docker failed once, connected on the second call, and a
\* later init_docker returned that second handle without any runtime call.
C8_Witness ==
    /\ lastOp.op = "init_docker"
    /\ lastOp.calls = <<>>
    /\ docker_client = Handle(2)
    /\ lastOp.ret = Handle(2)

\* name starts, ignoring case, with "hostlife_generated_" followed by at least
\* n hyphen-joined non-empty alphanumeric segments (n = 1 or 2)
StartsWithSlug(name, n) ==
    /\ Len(name) > Len(NamePrefix)
    /\ \A i \in 1..Len(NamePrefix) : Fold(name[i]) = NamePrefix[i]
    /\ LET rest == Drop(name, Len(NamePrefix))
       IN  \E a \in 1..Len(rest) :
              /\ \A j \in 1..a : rest[j] \in AlnumIC
              /\ n = 2 => /\ Len(rest) >= a + 2
                          /\ rest[a + 1] = "-"
                          /\ rest[a + 2] \in AlnumIC

\* the stops attempted are the listed names that satisfy want, in list order
StopsExactly(op, want(_)) ==
    [k \in 1..Len(CallsNamed(op, "container.stop")) |->
        CallsNamed(op, "container.stop")[k].args[1]] = SelectSeq(op.args, want)

CleanupListed(op) ==
    /\ op.op = "cleanup_containers"
    /\ op.calls # <<>>
    /\ op.calls[1] = Call("containers.list", <<>>, TRUE)

\* C9 as stated: a stop is attempted on exactly the listed containers whose name
\* is "hostlife_generated_" plus one or more hyphen-joined segments.
C9_StopsOneOrMoreSegments ==
    CleanupListed(lastOp) =>
        /\ StopsExactly(lastOp, LAMBDA nm : StartsWithSlug(nm, 1))
        /\ ~lastOp.raised

\* C9 amended: a stop is attempted on exactly the listed containers whose name
\* starts with "hostlife_generated_" plus two or more hyphen-joined segments,
\* whichever stops and removes fail; nothing is raised to the caller.
C9_StopsTwoOrMoreSegments ==
    CleanupListed(lastOp) =>
        /\ StopsExactly(lastOp, LAMBDA nm : StartsWithSlug(nm, 2))
        /\ ~lastOp.raised

\* C9 witness: two matching containers listed, the stop of the first failed and
\* the stop of the second was still attempted.
C9_Witness ==
    /\ CleanupListed(lastOp)
    /\ Len(lastOp.args) = 2
    /\ Len(lastOp.calls) >= 3
    /\ lastOp.calls[2] = Call("container.stop", <<lastOp.args[1]>>, FALSE)
    /\ lastOp.calls[3].name = "container.stop"
    /\ lastOp.calls[3].args = <<lastOp.args[2]>>

\* C10: a status query that follows a bulk pull pass in which every pull
\* succeeded reports exists = TRUE for every required entry.
C10_StatusAfterFullPull ==
    [][ ( /\ lastOp.op \in BulkOps
          /\ DbReturned(lastOp)
          /\ \A k \in 1..Len(lastOp.calls) : lastOp.calls[k].ok
          /\ lastOp'.op = "get_images_status"
          /\ lastOp'.ret # <<>> )
        => \A i \in 1..Len(lastOp'.ret) : lastOp'.ret[i].exists
      ]_vars

=============================================================================
